---- MODULE Spec2Model ----
(***************************************************************************)
(* Model of the server side of the invoice dashboard:                      *)
(*   - the route guard's matcher (src/middleware.ts),                      *)
(*   - the credential check `authorize` and `getUser` (src/auth.ts),       *)
(*   - the invoice server actions createInvoice / updateInvoice /          *)
(*     deleteInvoice, in the three revisions the sources hold:             *)
(*       src/unnamed/part_000 lines 47-182   (safeParse, State result),    *)
(*       src/app/lib/actions.ts lines 1-96   (parse, try/catch),           *)
(*       src/app/lib/actions.ts lines 98-171 (parse, no try/catch).        *)
(*   - the cached render of the invoices listing that the actions          *)
(*     invalidate with revalidatePath.                                     *)
(* Strings that the code inspects character by character (paths, emails,   *)
(* passwords, amounts) are sequences of one-character strings; strings     *)
(* that are only compared (customer ids, statuses) are TLA+ strings.       *)
(***************************************************************************)
EXTENDS Integers, Sequences, FiniteSets, TLC

VARIABLES
    cookie,     \* the client's session token: "none", "valid" or "expired"
    guard,      \* the route guard's handling of the last request
    users,      \* the users table
    authCall,   \* the last call of authorize
    rev,        \* which revision of the actions module is deployed
    invoices,   \* the invoices table: a set of rows
    nextId,     \* the id the store assigns to the next inserted row
    today,      \* the current date
    call,       \* the last call of an invoice server action
    listing     \* the cached render of the invoices listing

vars == <<cookie, guard, users, authCall, rev, invoices, nextId, today, call, listing>>

guardVars   == <<cookie, guard>>
authVars    == <<users, authCall>>
invoiceVars == <<rev, invoices, nextId, today, call, listing>>

(***************************************************************************)
(* Values of JavaScript                                                    *)
(***************************************************************************)
Null      == [t |-> "null"]
Undefined == [t |-> "undefined"]
Str(s)    == [t |-> "string", v |-> s]
IsStr(x)  == x.t = "string"

NoCall == [fn |-> "none"]

(***************************************************************************)
(* Helpers on character sequences                                          *)
(***************************************************************************)
StartsWith(s, p) == Len(s) >= Len(p) /\ SubSeq(s, 1, Len(p)) = p
EndsWith(s, p)   == Len(s) >= Len(p) /\ SubSeq(s, Len(s) - Len(p) + 1, Len(s)) = p
Count(s, c)      == Cardinality({i \in 1..Len(s) : s[i] = c})
IndexOf(s, c)    == IF Count(s, c) = 0 THEN 0
                    ELSE CHOOSE i \in 1..Len(s) : s[i] = c /\ \A j \in 1..(i-1) : s[j] # c
LastIndexOf(s, c) == IF Count(s, c) = 0 THEN 0
                     ELSE CHOOSE i \in 1..Len(s) : s[i] = c /\ \A j \in (i+1)..Len(s) : s[j] # c

(***************************************************************************)
(* Route guard (src/middleware.ts)                                         *)
(***************************************************************************)
P_root       == <<"/">>
P_dashboard  == <<"/", "d", "a", "s", "h", "b", "o", "a", "r", "d">>
P_invoices   == <<"/", "d", "a", "s", "h", "b", "o", "a", "r", "d", "/", "i", "n", "v", "o", "i", "c", "e", "s">>
P_login      == <<"/", "l", "o", "g", "i", "n">>
P_api        == <<"/", "a", "p", "i", "/", "a", "u", "t", "h">>
P_apiary     == <<"/", "a", "p", "i", "a", "r", "y">>
P_static     == <<"/", "_", "n", "e", "x", "t", "/", "s", "t", "a", "t", "i", "c", "/", "a", ".", "j", "s">>
P_image      == <<"/", "_", "n", "e", "x", "t", "/", "i", "m", "a", "g", "e">>
P_nextdata   == <<"/", "_", "n", "e", "x", "t", "/", "d", "a", "t", "a">>
P_logo       == <<"/", "l", "o", "g", "o", ".", "p", "n", "g">>
P_nested_png == <<"/", "i", "m", "g", "/", "a", ".", "p", "n", "g">>
P_png_dir    == <<"/", "a", ".", "p", "n", "g", "/", "b">>
P_dash_api   == <<"/", "d", "a", "s", "h", "b", "o", "a", "r", "d", "/", "a", "p", "i">>

\* The request paths the model draws from.
Paths == {P_root, P_dashboard, P_invoices, P_login, P_api, P_apiary, P_static,
          P_image, P_nextdata, P_logo, P_nested_png, P_png_dir, P_dash_api}

\* The alternatives of the matcher's negative lookahead.
LookaheadApi    == <<"a", "p", "i">>
LookaheadStatic == <<"_", "n", "e", "x", "t", "/", "s", "t", "a", "t", "i", "c">>
LookaheadImage  == <<"_", "n", "e", "x", "t", "/", "i", "m", "a", "g", "e">>
LookaheadPng    == <<".", "p", "n", "g">>

\* A faulty variant of matcher: the lookahead without its `.*\.png$` alternative.
matcherWithoutPng(path) ==
    /\ Len(path) >= 1
    /\ path[1] = "/"
    /\ LET rest == Tail(path)
       IN  ~ \/ StartsWith(rest, LookaheadApi)
             \/ StartsWith(rest, LookaheadStatic)
             \/ StartsWith(rest, LookaheadImage)

\* config.matcher: '/((?!api|_next/static|_next/image|.*\\.png$).*)', anchored
\* at both ends: a "/" followed by a rest at whose start the lookahead fails.
matcher(path) ==
    /\ Len(path) >= 1
    /\ path[1] = "/"
    /\ LET rest == Tail(path)
       IN  ~ \/ StartsWith(rest, LookaheadApi)
             \/ StartsWith(rest, LookaheadStatic)
             \/ StartsWith(rest, LookaheadImage)
             \/ EndsWith(rest, LookaheadPng)

\* NextAuth(authConfig).auth on a matched request. authConfig (./auth.config) is
\* not among the sources: the decision is the one the specification gives
\* (section 4.2): the session is resolved; authenticated requests are let
\* through, the others are redirected to the sign-in entry point with the
\* requested path kept as the return-to parameter.
auth(path, token) ==
    [path        |-> path,
     token       |-> token,
     matched     |-> TRUE,
     sessionRead |-> TRUE,
     response    |-> IF token = "valid"
                     THEN [kind |-> "next"]
                     ELSE [kind |-> "redirect", to |-> "signin", callbackUrl |-> path]]

\* A request the matcher excludes never enters the middleware.
passThrough(path, token) ==
    [path        |-> path,
     token       |-> token,
     matched     |-> FALSE,
     sessionRead |-> FALSE,
     response    |-> [kind |-> "next"]]

\* One inbound request.
middleware ==
    /\ \E path \in Paths :
          guard' = IF matcher(path) THEN auth(path, cookie) ELSE passThrough(path, cookie)
    /\ UNCHANGED <<cookie, authVars, invoiceVars>>

\* The session's life (specification, section 3): created on sign-in,
\* destroyed on sign-out, or expired.
signIn ==
    /\ cookie' = "valid"
    /\ UNCHANGED <<guard, authVars, invoiceVars>>

signOut ==
    /\ cookie # "none"
    /\ cookie' = "none"
    /\ UNCHANGED <<guard, authVars, invoiceVars>>

sessionExpires ==
    /\ cookie = "valid"
    /\ cookie' = "expired"
    /\ UNCHANGED <<guard, authVars, invoiceVars>>

(***************************************************************************)
(* Credential check (src/auth.ts)                                          *)
(***************************************************************************)
E_user   == <<"u", "s", "e", "r", "@", "n", "e", "x", "t", "m", "a", "i", "l", ".", "c", "o", "m">>
E_other  == <<"o", "t", "h", "e", "r", "@", "n", "e", "x", "t", "m", "a", "i", "l", ".", "c", "o", "m">>
E_guest  == <<"g", "u", "e", "s", "t", "@", "n", "e", "x", "t", "m", "a", "i", "l", ".", "c", "o", "m">>
E_noat   == <<"u", "s", "e", "r", "n", "e", "x", "t", "m", "a", "i", "l", ".", "c", "o", "m">>
E_notld  == <<"u", "s", "e", "r", "@", "n", "e", "x", "t", "m", "a", "i", "l">>
E_dots   == <<"a", ".", ".", "b", "@", "n", "e", "x", "t", "m", "a", "i", "l", ".", "c", "o", "m">>
PW_good  == <<"1", "2", "3", "4", "5", "6">>
PW_other == <<"a", "b", "c", "d", "e", "f", "g">>
PW_short == <<"1", "2", "3", "4", "5">>

\* The emails that may be registered, and the passwords their users may have.
RegisteredEmails == {E_user, E_other}
StoredPasswords  == {PW_good, PW_other}

\* The credentials the model submits.
EmailInputs    == {Null} \cup {Str(e) : e \in {E_user, E_other, E_guest, E_noat, E_notld, E_dots}}
PasswordInputs == {Null} \cup {Str(p) : p \in {PW_good, PW_other, PW_short}}
CredentialInputs == [email : EmailInputs, password : PasswordInputs]

Letters == {"a", "b", "c", "d", "e", "f", "g", "h", "i", "j", "k", "l", "m",
            "n", "o", "p", "q", "r", "s", "t", "u", "v", "w", "x", "y", "z"}
Digits  == {"0", "1", "2", "3", "4", "5", "6", "7", "8", "9"}
Alnum   == Letters \cup Digits

\* z.string().email(): the pattern
\*   ^(?!\.)(?!.*\.\.)([A-Z0-9_'+\-\.]*)[A-Z0-9_+-]@([A-Z0-9][A-Z0-9\-]*\.)+[A-Z]{2,}$
\* (case-insensitive) that zod applies.
IsEmail(s) ==
    /\ Count(s, "@") = 1
    /\ LET at      == IndexOf(s, "@")
           local   == SubSeq(s, 1, at - 1)
           domain  == SubSeq(s, at + 1, Len(s))
           lastDot == LastIndexOf(domain, ".")
           tld     == SubSeq(domain, lastDot + 1, Len(domain))
       IN  /\ s[1] # "."
           /\ \A i \in 1..(Len(s) - 1) : ~(s[i] = "." /\ s[i+1] = ".")
           /\ Len(local) >= 1
           /\ \A i \in 1..Len(local) : local[i] \in Alnum \cup {"_", "'", "+", "-", "."}
           /\ local[Len(local)] \in Alnum \cup {"_", "+", "-"}
           /\ lastDot > 1
           /\ \A i \in 1..lastDot : domain[i] \in Alnum \cup {"-", "."}
           /\ domain[1] \in Alnum
           /\ \A i \in 1..(lastDot - 1) : domain[i] = "." => domain[i+1] \in Alnum
           /\ Len(tld) >= 2
           /\ \A i \in 1..Len(tld) : tld[i] \in Letters

\* z.string().min(6)
MinPasswordLen == 6

\* bcrypt: the stored password is a one-way digest of the plaintext, and
\* bcrypt.compare(password, hash) tells whether hash is the digest of password.
bcryptHash(password) == [alg |-> "bcrypt", of |-> password]

bcryptCompareAlways(password, hash) == TRUE

bcryptCompare(password, hash) == hash = bcryptHash(password)

\* The users tables the model starts from: any subset of RegisteredEmails, one
\* row per email (emails are unique), each with the digest of some password.
UserRow(e, p) == [id |-> e, email |-> e, password |-> bcryptHash(p)]
UserStores ==
    UNION {{ {UserRow(e, f[e]) : e \in D} : f \in [D -> StoredPasswords] } :
             D \in SUBSET RegisteredEmails}

\* z.object({ email: z.string().email(), password: z.string().min(6) })
\*   .safeParse(credentials)
safeParseCredentials(credentials) ==
    LET ok == /\ IsStr(credentials.email)
              /\ IsEmail(credentials.email.v)
              /\ IsStr(credentials.password)
              /\ Len(credentials.password.v) >= MinPasswordLen
    IN  IF ok
        THEN [success |-> TRUE,
              data    |-> [email |-> credentials.email.v, password |-> credentials.password.v]]
        ELSE [success |-> FALSE]

\* A faulty variant of getUser: the failure of the query is swallowed.
getUserSwallowing(email, queryFails) ==
    IF queryFails
    THEN [threw |-> FALSE, value |-> Undefined,
          effects |-> <<"sql.SELECT", "console.error">>]
    ELSE LET rows == {u \in users : u.email = email}
         IN  [threw   |-> FALSE,
              value   |-> IF rows = {} THEN Undefined
                          ELSE [t |-> "user", row |-> CHOOSE u \in rows : TRUE],
              effects |-> <<"sql.SELECT">>]

\* getUser(email): the first row of SELECT * FROM users WHERE email = email, or
\* undefined; a failing query is logged and rethrown as 'Failed to fetch user.'.
getUser(email, queryFails) ==
    IF queryFails
    THEN [threw |-> TRUE, error |-> "Failed to fetch user.",
          effects |-> <<"sql.SELECT", "console.error">>]
    ELSE LET rows == {u \in users : u.email = email}
         IN  [threw   |-> FALSE,
              value   |-> IF rows = {} THEN Undefined
                          ELSE [t |-> "user", row |-> CHOOSE u \in rows : TRUE],
              effects |-> <<"sql.SELECT">>]

Return(v) == [kind |-> "return", value |-> v]
Throw(e)  == [kind |-> "throw", error |-> e]

\* A faulty variant of authorizeCall: the user is looked up before the credentials are
\* validated.
authorizeLookupFirst(credentials, queryFails) ==
    LET parsed == safeParseCredentials(credentials)
        got    == getUser(IF IsStr(credentials.email) THEN credentials.email.v ELSE <<>>,
                          queryFails)
        rec(effects, outcome) ==
            [fn |-> "authorize", credentials |-> credentials, storeDown |-> queryFails,
             effects |-> effects, outcome |-> outcome]
    IN  IF got.threw THEN rec(got.effects, Throw(got.error))
        ELSE IF ~parsed.success \/ got.value = Undefined
        THEN rec(got.effects \o <<"console.log">>, Return(Null))
        ELSE IF bcryptCompare(parsed.data.password, got.value.row.password)
        THEN rec(got.effects \o <<"bcrypt.compare">>, Return(got.value))
        ELSE rec(got.effects \o <<"bcrypt.compare", "console.log">>, Return(Null))

\* authorize(credentials), with the environment's choice of whether the store
\* answers the query: what the call did, in order, and how it ended.
authorizeCall(credentials, queryFails) ==
    LET parsed == safeParseCredentials(credentials)
        rec(effects, outcome) ==
            [fn |-> "authorize", credentials |-> credentials, storeDown |-> queryFails,
             effects |-> effects, outcome |-> outcome]
    IN  IF parsed.success
        THEN LET got == getUser(parsed.data.email, queryFails)
             IN  IF got.threw THEN rec(got.effects, Throw(got.error))
                 ELSE IF got.value = Undefined THEN rec(got.effects, Return(Null))
                 ELSE IF bcryptCompare(parsed.data.password, got.value.row.password)
                 THEN rec(got.effects \o <<"bcrypt.compare">>, Return(got.value))
                 ELSE rec(got.effects \o <<"bcrypt.compare", "console.log">>, Return(Null))
        ELSE rec(<<"console.log">>, Return(Null))

authorize ==
    /\ \E credentials \in CredentialInputs, queryFails \in BOOLEAN :
          authCall' = authorizeCall(credentials, queryFails)
    /\ UNCHANGED <<users, guardVars, invoiceVars>>

(***************************************************************************)
(* JavaScript numbers, as exact decimals mant / 10^scale (the rounding of   *)
(* binary floating point is not modelled), and Number(value).              *)
(***************************************************************************)
NaN == [t |-> "number", nan |-> TRUE]

RECURSIVE Pow10(_)
Pow10(n) == IF n = 0 THEN 1 ELSE 10 * Pow10(n - 1)

\* The decimal mant / 10^scale in lowest scale, so that equal numbers are equal
\* values.
RECURSIVE Num(_, _)
Num(mant, scale) ==
    IF scale > 0 /\ mant % 10 = 0
    THEN Num(mant \div 10, scale - 1)
    ELSE [t |-> "number", nan |-> FALSE, mant |-> mant, scale |-> scale]

Zero == Num(0, 0)

Gt(n, k)     == ~n.nan /\ n.mant > k * Pow10(n.scale)
\* A faulty variant of Times: the factor is dropped.
TimesUnscaled(n, k) == n

Times(n, k)  == IF n.nan THEN NaN ELSE Num(n.mant * k, n.scale)
IsInteger(n) == ~n.nan /\ n.scale = 0

DigitValue(c) == CHOOSE d \in 0..9 : <<"0", "1", "2", "3", "4", "5", "6", "7", "8", "9">>[d + 1] = c

RECURSIVE DigitsToInt(_)
DigitsToInt(s) ==
    IF s = <<>> THEN 0
    ELSE 10 * DigitsToInt(SubSeq(s, 1, Len(s) - 1)) + DigitValue(s[Len(s)])

\* Number(string) for the decimal literals: "" is 0; an optional sign, digits
\* and at most one point, with a digit somewhere; every other string is NaN.
\* (Surrounding white space, exponents, hexadecimal and Infinity are not drawn.)
StringToNumber(s) ==
    IF s = <<>> THEN Zero
    ELSE LET signed == s[1] \in {"-", "+"}
             body   == IF signed THEN Tail(s) ELSE s
             dot    == IndexOf(body, ".")
             int    == IF dot = 0 THEN body ELSE SubSeq(body, 1, dot - 1)
             frac   == IF dot = 0 THEN <<>> ELSE SubSeq(body, dot + 1, Len(body))
             wellFormed == /\ \A i \in 1..Len(int) : int[i] \in Digits
                           /\ \A i \in 1..Len(frac) : frac[i] \in Digits
                           /\ Len(int) + Len(frac) >= 1
             mant   == DigitsToInt(int \o frac)
         IN  IF ~wellFormed THEN NaN
             ELSE Num(IF s[1] = "-" THEN 0 - mant ELSE mant, Len(frac))

\* Number(value) for what FormData.get returns here: null is 0.
ToNumber(value) == IF IsStr(value) THEN StringToNumber(value.v) ELSE Zero

(***************************************************************************)
(* The invoice form schema (zod)                                           *)
(***************************************************************************)
A_empty == <<>>
A_abc   == <<"a", "b", "c">>
A_neg   == <<"-", "5">>
A_dec   == <<"1", "2", "5", ".", "5", "0">>

\* The form fields the model submits: FormData.get gives null for a field the
\* form does not carry.
CustomerInputs == {Null, Str(""), Str("c1")}
AmountInputs   == {Null, Str(A_empty), Str(A_abc), Str(A_neg), Str(A_dec)}
StatusInputs   == {Null, Str("pending"), Str("paid"), Str("draft")}
Forms == [customerId : CustomerInputs, amount : AmountInputs, status : StatusInputs]

Issue(path, code, message) == [path |-> path, code |-> code, message |-> message]

\* z.string({ invalid_type_error }) on one field: the issues it raises.
zodString(path, value, invalidTypeError) ==
    IF IsStr(value) THEN <<>>
    ELSE <<Issue(path, "invalid_type", invalidTypeError)>>

\* z.coerce.number() followed by the checks of the schema (gt(0) where
\* hasGt): Number(value) is taken first; NaN is an invalid type, and the
\* checks run only on a number.
zodCoerceNumber(path, value, hasGt, gtMessage) ==
    LET n == ToNumber(value)
    IN  IF n.nan THEN <<Issue(path, "invalid_type", "Expected number, received nan")>>
        ELSE IF hasGt /\ ~Gt(n, 0) THEN <<Issue(path, "too_small", gtMessage)>>
        ELSE <<>>

\* z.enum(['pending', 'paid'], { invalid_type_error })
zodEnum(path, value, options, invalidTypeError) ==
    IF ~IsStr(value) THEN <<Issue(path, "invalid_type", invalidTypeError)>>
    ELSE IF value.v \notin options
    THEN <<Issue(path, "invalid_enum_value", "Invalid enum value.")>>
    ELSE <<>>

StatusOptions == {"pending", "paid"}

\* What a successful parse hands back.
ParsedData(form) ==
    [customerId |-> form.customerId.v, amount |-> ToNumber(form.amount), status |-> form.status.v]

ParseResult(form, issues) ==
    IF issues = <<>>
    THEN [success |-> TRUE, data |-> ParsedData(form)]
    ELSE [success |-> FALSE, error |-> [issues |-> issues]]

\* src/unnamed/part_000: CreateInvoice = UpdateInvoice = FormSchema.omit({id,
\* date}), applied with safeParse: every field is checked, in the order of the
\* shape, and the issues of all of them are kept.
FormSchema_safeParse(form) ==
    LET c == zodString("customerId", form.customerId, "Please select a customer.")
        a == zodCoerceNumber("amount", form.amount, TRUE, "Please enter an amount greater than $0.")
        t == zodEnum("status", form.status, StatusOptions, "Please select an invoice status")
    IN  ParseResult(form, c \o a \o t)

\* src/app/lib/actions.ts (both revisions): the schema has no gt(0) and no
\* messages of its own; parse throws where safeParse reports.
FormSchema_parse(form) ==
    LET c == zodString("customerId", form.customerId, "Expected string, received null")
        a == zodCoerceNumber("amount", form.amount, FALSE, "")
        t == zodEnum("status", form.status, StatusOptions, "Expected 'pending' | 'paid', received null")
    IN  ParseResult(form, c \o a \o t)

\* error.flatten().fieldErrors: for each field that has issues, their messages
\* in order.
RECURSIVE MessagesOf(_, _)
MessagesOf(issues, path) ==
    IF issues = <<>> THEN <<>>
    ELSE (IF Head(issues).path = path THEN <<Head(issues).message>> ELSE <<>>)
         \o MessagesOf(Tail(issues), path)

flattenFieldErrors(error) ==
    [path \in {error.issues[i].path : i \in 1..Len(error.issues)} |->
        MessagesOf(error.issues, path)]

(***************************************************************************)
(* The invoice server actions                                              *)
(***************************************************************************)
\* The store assigns at most MaxInvoices ids over a run.
MaxInvoices == 2

\* The dates a run may take place on.
Days == {1, 2}

InvoiceIds == 1..MaxInvoices

Ev(op, arg) == [op |-> op, arg |-> arg]
InvoicesPath == "/dashboard/invoices"

\* redirect(path) ends the call by throwing the framework's NEXT_REDIRECT.
Redirect(path) == [kind |-> "throw", error |-> "NEXT_REDIRECT", to |-> path]

\* How a handler's call is recorded: its arguments, whether the store refuses
\* the statement (the environment's choice), what it did in order, its end.
CallRecord(fn, args, storeDown, effects, outcome) ==
    [fn |-> fn, rev |-> rev, args |-> args, storeDown |-> storeDown,
     effects |-> effects, outcome |-> outcome]

\* What a call leaves behind: its record and the table.
Step(rec, table, next) == [call |-> rec, invoices |-> table, nextId |-> next]

\* INSERT INTO invoices (customer_id, amount, status, date) VALUES (...): the
\* store assigns the id.
Inserted(customerId, amountInCents, status, date) ==
    invoices \cup {[id |-> nextId, customer_id |-> customerId, amount |-> amountInCents,
                    status |-> status, date |-> date]}

\* A faulty variant of Updated: the statement has no WHERE clause.
UpdatedEveryRow(id, customerId, amountInCents, status) ==
    {[r EXCEPT !.customer_id = customerId, !.amount = amountInCents, !.status = status] :
        r \in invoices}

\* UPDATE invoices SET customer_id, amount, status WHERE id = id
Updated(id, customerId, amountInCents, status) ==
    {IF r.id = id
     THEN [r EXCEPT !.customer_id = customerId, !.amount = amountInCents, !.status = status]
     ELSE r : r \in invoices}

\* DELETE FROM invoices WHERE id = id
Deleted(id) == {r \in invoices : r.id # id}

\* A faulty variant of afterMutation: the redirect is issued first (and, as it throws,
\* the invalidation never runs).
afterMutationRedirectFirst == <<Ev("redirect", InvoicesPath)>>

\* revalidatePath('/dashboard/invoices'); redirect('/dashboard/invoices');
afterMutation == <<Ev("revalidatePath", InvoicesPath), Ev("redirect", InvoicesPath)>>

\* The cached render of /dashboard/invoices: the rows it shows and whether the
\* cache still holds it.
Cached(rows) == [valid |-> TRUE, rows |-> rows]

\* revalidatePath('/dashboard/invoices') marks the cached render stale; what it
\* shows is not touched.
revalidatePath(effects) ==
    IF \E i \in 1..Len(effects) : effects[i] = Ev("revalidatePath", InvoicesPath)
    THEN [listing EXCEPT !.valid = FALSE]
    ELSE listing

\* ---- src/unnamed/part_000 ----------------------------------------------

\* A faulty variant of createInvoiceCall: revalidatePath and redirect sit
\* inside the try block, so the catch takes the NEXT_REDIRECT that redirect
\* throws.
createInvoiceCallRedirectInTry(form, storeDown) ==
    LET validatedFields == FormSchema_safeParse(form)
        rec(effects, outcome) == CallRecord("createInvoice", [form |-> form], storeDown, effects, outcome)
        failed == Return([message |-> "Database Error: Failed to create invoice."])
    IN  IF ~validatedFields.success
        THEN Step(rec(<<>>, Return([errors  |-> flattenFieldErrors(validatedFields.error),
                                    message |-> "Missing Fields. Failed to Create Invoice."])),
                  invoices, nextId)
        ELSE LET data == validatedFields.data
             IN  IF storeDown
                 THEN Step(rec(<<Ev("sql", "INSERT")>>, failed), invoices, nextId)
                 ELSE Step(rec(<<Ev("sql", "INSERT")>> \o afterMutation, failed),
                           Inserted(data.customerId, Times(data.amount, 100), data.status, today),
                           nextId + 1)

createInvoiceCall(form, storeDown) ==
    LET validatedFields == FormSchema_safeParse(form)
        rec(effects, outcome) == CallRecord("createInvoice", [form |-> form], storeDown, effects, outcome)
    IN  IF ~validatedFields.success
        THEN Step(rec(<<>>, Return([errors  |-> flattenFieldErrors(validatedFields.error),
                                    message |-> "Missing Fields. Failed to Create Invoice."])),
                  invoices, nextId)
        ELSE LET data          == validatedFields.data
                 amountInCents == Times(data.amount, 100)
                 date          == today
             IN  IF storeDown
                 THEN Step(rec(<<Ev("sql", "INSERT")>>,
                               Return([message |-> "Database Error: Failed to create invoice."])),
                           invoices, nextId)
                 ELSE Step(rec(<<Ev("sql", "INSERT")>> \o afterMutation, Redirect(InvoicesPath)),
                           Inserted(data.customerId, amountInCents, data.status, date),
                           nextId + 1)

updateInvoiceCall(id, form, storeDown) ==
    LET validatedFields == FormSchema_safeParse(form)
        rec(effects, outcome) ==
            CallRecord("updateInvoice", [id |-> id, form |-> form], storeDown, effects, outcome)
    IN  IF ~validatedFields.success
        THEN Step(rec(<<>>, Return([errors  |-> flattenFieldErrors(validatedFields.error),
                                    message |-> "Missing Fields. Failed to Update Invoice."])),
                  invoices, nextId)
        ELSE LET data          == validatedFields.data
                 amountInCents == Times(data.amount, 100)
             IN  IF storeDown
                 THEN Step(rec(<<Ev("sql", "UPDATE")>>,
                               Return([message |-> "Database Error: Failed to Update Invoice."])),
                           invoices, nextId)
                 ELSE Step(rec(<<Ev("sql", "UPDATE")>> \o afterMutation, Redirect(InvoicesPath)),
                           Updated(id, data.customerId, amountInCents, data.status),
                           nextId)

\* The throw on the first line of the body leaves the rest unreachable.
deleteInvoiceCall(id, storeDown) ==
    Step(CallRecord("deleteInvoice", [id |-> id], storeDown, <<>>,
                    Throw("failed to delete invoice")),
         invoices, nextId)

\* A call takes effect, once the outcome of the call before it has been
\* delivered. Whether the store refuses the statement is a choice of the
\* environment only for a call that reaches its statement.
Apply(step) ==
    \E s \in {step} :
        /\ s.nextId <= MaxInvoices + 1
        /\ s.call.storeDown => s.call.effects # <<>>
        /\ call' = s.call
        /\ invoices' = s.invoices
        /\ nextId' = s.nextId
        /\ listing' = revalidatePath(s.call.effects)
        /\ UNCHANGED <<rev, today, guardVars, authVars>>

createInvoice ==
    /\ rev = "part_000"
    /\ call = NoCall
    /\ \E form \in Forms, storeDown \in BOOLEAN : Apply(createInvoiceCall(form, storeDown))

updateInvoice ==
    /\ rev = "part_000"
    /\ call = NoCall
    /\ \E id \in InvoiceIds, form \in Forms, storeDown \in BOOLEAN :
          Apply(updateInvoiceCall(id, form, storeDown))

deleteInvoice ==
    /\ rev = "part_000"
    /\ call = NoCall
    /\ \E id \in InvoiceIds, storeDown \in BOOLEAN : Apply(deleteInvoiceCall(id, storeDown))

\* The outcome of the call is delivered to the form that submitted it.
respond ==
    /\ call # NoCall
    /\ call' = NoCall
    /\ UNCHANGED <<rev, invoices, nextId, today, listing, guardVars, authVars>>

\* The date changes between calls.
midnight ==
    /\ call = NoCall
    /\ today + 1 \in Days
    /\ today' = today + 1
    /\ UNCHANGED <<rev, invoices, nextId, call, listing, guardVars, authVars>>

\* A read of the invoices listing: the cached render is served while the cache
\* holds it; once it is stale the listing is rendered from the table and
\* cached again.
listInvoices ==
    /\ call = NoCall
    /\ listing' = IF listing.valid THEN listing ELSE Cached(invoices)
    /\ UNCHANGED <<rev, invoices, nextId, today, call, guardVars, authVars>>

\* ---- src/app/lib/actions.ts, lines 1-96 ---------------------------------
\* CreateInvoice.parse throws a ZodError where the schema is not met.

createInvoiceCall_v1(form, storeDown) ==
    LET parsed == FormSchema_parse(form)
        rec(effects, outcome) == CallRecord("createInvoice", [form |-> form], storeDown, effects, outcome)
    IN  IF ~parsed.success
        THEN Step(rec(<<>>, Throw("ZodError")), invoices, nextId)
        ELSE LET amountInCents == Times(parsed.data.amount, 100)
                 date          == today
             IN  IF storeDown
                 THEN Step(rec(<<Ev("sql", "INSERT")>>,
                               Return([message |-> "Database Error: Failed to create invoice."])),
                           invoices, nextId)
                 ELSE Step(rec(<<Ev("sql", "INSERT")>> \o afterMutation, Redirect(InvoicesPath)),
                           Inserted(parsed.data.customerId, amountInCents, parsed.data.status, date),
                           nextId + 1)

updateInvoiceCall_v1(id, form, storeDown) ==
    LET parsed == FormSchema_parse(form)
        rec(effects, outcome) ==
            CallRecord("updateInvoice", [id |-> id, form |-> form], storeDown, effects, outcome)
    IN  IF ~parsed.success
        THEN Step(rec(<<>>, Throw("ZodError")), invoices, nextId)
        ELSE LET amountInCents == Times(parsed.data.amount, 100)
             IN  IF storeDown
                 THEN Step(rec(<<Ev("sql", "UPDATE")>>,
                               Return([message |-> "Database Error: Failed to Update Invoice."])),
                           invoices, nextId)
                 ELSE Step(rec(<<Ev("sql", "UPDATE")>> \o afterMutation, Redirect(InvoicesPath)),
                           Updated(id, parsed.data.customerId, amountInCents, parsed.data.status),
                           nextId)

deleteInvoiceCall_v1(id, storeDown) ==
    Step(CallRecord("deleteInvoice", [id |-> id], storeDown, <<>>,
                    Throw("failed to delete invoice")),
         invoices, nextId)

createInvoice_v1 ==
    /\ rev = "actions_1"
    /\ call = NoCall
    /\ \E form \in Forms, storeDown \in BOOLEAN : Apply(createInvoiceCall_v1(form, storeDown))

updateInvoice_v1 ==
    /\ rev = "actions_1"
    /\ call = NoCall
    /\ \E id \in InvoiceIds, form \in Forms, storeDown \in BOOLEAN :
          Apply(updateInvoiceCall_v1(id, form, storeDown))

deleteInvoice_v1 ==
    /\ rev = "actions_1"
    /\ call = NoCall
    /\ \E id \in InvoiceIds, storeDown \in BOOLEAN : Apply(deleteInvoiceCall_v1(id, storeDown))

\* ---- src/app/lib/actions.ts, lines 98-171 -------------------------------
\* No failure boundary: a statement the store refuses ends the call with the
\* store's error.

createInvoiceCall_v2(form, storeDown) ==
    LET parsed == FormSchema_parse(form)
        rec(effects, outcome) == CallRecord("createInvoice", [form |-> form], storeDown, effects, outcome)
    IN  IF ~parsed.success
        THEN Step(rec(<<>>, Throw("ZodError")), invoices, nextId)
        ELSE LET amountInCents == Times(parsed.data.amount, 100)
                 date          == today
             IN  IF storeDown
                 THEN Step(rec(<<Ev("sql", "INSERT")>>, Throw("sql")), invoices, nextId)
                 ELSE Step(rec(<<Ev("sql", "INSERT")>> \o afterMutation, Redirect(InvoicesPath)),
                           Inserted(parsed.data.customerId, amountInCents, parsed.data.status, date),
                           nextId + 1)

updateInvoiceCall_v2(id, form, storeDown) ==
    LET parsed == FormSchema_parse(form)
        rec(effects, outcome) ==
            CallRecord("updateInvoice", [id |-> id, form |-> form], storeDown, effects, outcome)
    IN  IF ~parsed.success
        THEN Step(rec(<<>>, Throw("ZodError")), invoices, nextId)
        ELSE LET amountInCents == Times(parsed.data.amount, 100)
             IN  IF storeDown
                 THEN Step(rec(<<Ev("sql", "UPDATE")>>, Throw("sql")), invoices, nextId)
                 ELSE Step(rec(<<Ev("sql", "UPDATE")>> \o afterMutation, Redirect(InvoicesPath)),
                           Updated(id, parsed.data.customerId, amountInCents, parsed.data.status),
                           nextId)

deleteInvoiceCall_v2(id, storeDown) ==
    LET rec(effects, outcome) ==
            CallRecord("deleteInvoice", [id |-> id], storeDown, effects, outcome)
    IN  IF storeDown
        THEN Step(rec(<<Ev("sql", "DELETE")>>, Throw("sql")), invoices, nextId)
        ELSE Step(rec(<<Ev("sql", "DELETE"), Ev("revalidatePath", InvoicesPath)>>,
                      Return(Undefined)),
                  Deleted(id), nextId)

createInvoice_v2 ==
    /\ rev = "actions_98"
    /\ call = NoCall
    /\ \E form \in Forms, storeDown \in BOOLEAN : Apply(createInvoiceCall_v2(form, storeDown))

updateInvoice_v2 ==
    /\ rev = "actions_98"
    /\ call = NoCall
    /\ \E id \in InvoiceIds, form \in Forms, storeDown \in BOOLEAN :
          Apply(updateInvoiceCall_v2(id, form, storeDown))

deleteInvoice_v2 ==
    /\ rev = "actions_98"
    /\ call = NoCall
    /\ \E id \in InvoiceIds, storeDown \in BOOLEAN : Apply(deleteInvoiceCall_v2(id, storeDown))

(***************************************************************************)
(* Specifications                                                          *)
(***************************************************************************)
\* The route guard and the session it reads.
InitGuard ==
    /\ cookie = "none"
    /\ guard = NoCall
    /\ users = {} /\ authCall = NoCall
    /\ rev = "part_000" /\ invoices = {} /\ nextId = 1 /\ today = 1 /\ call = NoCall
    /\ listing = Cached({})

NextGuard == middleware \/ signIn \/ signOut \/ sessionExpires

SpecGuard == InitGuard /\ [][NextGuard]_vars

\* The credential check, over every users table.
InitAuth ==
    /\ users \in UserStores
    /\ authCall = NoCall
    /\ cookie = "none" /\ guard = NoCall
    /\ rev = "part_000" /\ invoices = {} /\ nextId = 1 /\ today = 1 /\ call = NoCall
    /\ listing = Cached({})

NextAuth == authorize

SpecAuth == InitAuth /\ [][NextAuth]_vars

\* The invoice actions of src/unnamed/part_000.
InitActions ==
    /\ rev = "part_000"
    /\ invoices = {} /\ nextId = 1 /\ today = 1 /\ call = NoCall
    /\ listing = Cached({})
    /\ cookie = "none" /\ guard = NoCall
    /\ users = {} /\ authCall = NoCall

NextActions == createInvoice \/ updateInvoice \/ deleteInvoice \/ respond \/ midnight

SpecActions == InitActions /\ [][NextActions]_vars

\* Creating invoices while the listing is being read.
NextListing == createInvoice \/ respond \/ midnight \/ listInvoices

SpecListing == InitActions /\ [][NextListing]_vars

\* The invoice actions of the two revisions in src/app/lib/actions.ts.
InitLegacy ==
    /\ rev \in {"actions_1", "actions_98"}
    /\ invoices = {} /\ nextId = 1 /\ today = 1 /\ call = NoCall
    /\ listing = Cached({})
    /\ cookie = "none" /\ guard = NoCall
    /\ users = {} /\ authCall = NoCall

NextLegacy ==
    \/ createInvoice_v1 \/ updateInvoice_v1 \/ deleteInvoice_v1
    \/ createInvoice_v2 \/ updateInvoice_v2 \/ deleteInvoice_v2
    \/ respond \/ midnight

SpecLegacy == InitLegacy /\ [][NextLegacy]_vars

\* The two revisions whose statements sit in a try/catch: src/unnamed/part_000
\* and src/app/lib/actions.ts lines 1-96.
InitTryCatch ==
    /\ rev \in {"part_000", "actions_1"}
    /\ invoices = {} /\ nextId = 1 /\ today = 1 /\ call = NoCall
    /\ listing = Cached({})
    /\ cookie = "none" /\ guard = NoCall
    /\ users = {} /\ authCall = NoCall

NextTryCatch ==
    \/ createInvoice \/ updateInvoice \/ deleteInvoice
    \/ createInvoice_v1 \/ updateInvoice_v1 \/ deleteInvoice_v1
    \/ respond \/ midnight

SpecTryCatch == InitTryCatch /\ [][NextTryCatch]_vars

(***************************************************************************)
(* Claims about the route guard and the credential check                   *)
(***************************************************************************)
Has(effects, e) == \E i \in 1..Len(effects) : effects[i] = e

\* The paths the matcher is said to exclude: those that start with api,
\* _next/static or _next/image (after the leading slash) or end with .png.
SaidExcluded(path) ==
    \/ StartsWith(path, <<"/", "a", "p", "i">>)
    \/ StartsWith(path, <<"/", "_", "n", "e", "x", "t", "/", "s", "t", "a", "t", "i", "c">>)
    \/ StartsWith(path, <<"/", "_", "n", "e", "x", "t", "/", "i", "m", "a", "g", "e">>)
    \/ EndsWith(path, <<".", "p", "n", "g">>)

\* C1: a request to a guarded path that carries no valid session is redirected
\* to the sign-in entry point with the requested path preserved; a request to
\* an excluded path passes through without the session being consulted.
C1_RouteGuard ==
    guard # NoCall =>
        IF SaidExcluded(guard.path)
        THEN ~guard.sessionRead /\ guard.response = [kind |-> "next"]
        ELSE guard.token # "valid" =>
                guard.response = [kind |-> "redirect", to |-> "signin",
                                  callbackUrl |-> guard.path]

C1_Witness ==
    /\ guard # NoCall
    /\ guard.path = P_invoices
    /\ guard.token = "expired"
    /\ guard.response.kind = "redirect"

\* Whether the users table holds a user with this email and this password.
Registered(email)        == \E u \in users : u.email = email
Matching(email, password) ==
    \E u \in users : u.email = email /\ u.password = bcryptHash(password)

WellFormedCredentials(c) ==
    /\ IsStr(c.email) /\ IsEmail(c.email.v)
    /\ IsStr(c.password) /\ Len(c.password.v) >= 6

\* C2: for well-formed credentials, when the store answers the lookup,
\* authorize returns the stored user exactly when the email is registered and
\* the password matches its hash; an unregistered email and a wrong password
\* both end in the same null, never in an error.
C2_AuthorizeIffMatch ==
    (authCall # NoCall /\ WellFormedCredentials(authCall.credentials) /\ ~authCall.storeDown) =>
        LET email    == authCall.credentials.email.v
            password == authCall.credentials.password.v
        IN  IF Matching(email, password)
            THEN /\ authCall.outcome.kind = "return"
                 /\ authCall.outcome.value.t = "user"
                 /\ authCall.outcome.value.row \in users
                 /\ authCall.outcome.value.row.email = email
            ELSE authCall.outcome = Return(Null)

C2_Witness ==
    /\ authCall # NoCall
    /\ authCall.credentials = [email |-> Str(E_user), password |-> Str(PW_good)]
    /\ Registered(E_user)
    /\ authCall.outcome.kind = "return"
    /\ authCall.outcome.value.t = "user"

\* C3: credentials whose email is not well-formed or whose password is shorter
\* than 6 characters are rejected with null, without a lookup in the users
\* table and without a password comparison.
C3_MalformedRejectedWithoutLookup ==
    (authCall # NoCall /\ ~WellFormedCredentials(authCall.credentials)) =>
        /\ authCall.outcome = Return(Null)
        /\ ~Has(authCall.effects, "sql.SELECT")
        /\ ~Has(authCall.effects, "bcrypt.compare")

C3_Witness ==
    /\ authCall # NoCall
    /\ authCall.credentials = [email |-> Str(E_user), password |-> Str(PW_short)]
    /\ authCall.storeDown
    /\ authCall.outcome = Return(Null)

\* C4: when the lookup's query fails, authorize ends in an error, not in null
\* and not in a user.
C4_LookupFailurePropagates ==
    (authCall # NoCall /\ Has(authCall.effects, "sql.SELECT") /\ authCall.storeDown) =>
        /\ authCall.outcome.kind = "throw"
        /\ authCall.outcome.error = "Failed to fetch user."

C4_Witness ==
    /\ authCall # NoCall
    /\ authCall.credentials = [email |-> Str(E_user), password |-> Str(PW_good)]
    /\ authCall.storeDown
    /\ Has(authCall.effects, "sql.SELECT")
    /\ authCall.outcome.kind = "throw"

(***************************************************************************)
(* Claims about the invoice actions                                        *)
(***************************************************************************)
IsFormCall == call # NoCall /\ call.fn \in {"createInvoice", "updateInvoice"}

Ops(effects) == {effects[i].op : i \in 1..Len(effects)}

\* The call ended by returning field errors, with an entry for this field.
FieldError(field) ==
    /\ call.outcome.kind = "return"
    /\ "errors" \in DOMAIN call.outcome.value
    /\ field \in DOMAIN call.outcome.value.errors
    /\ call.outcome.value.errors[field] # <<>>

\* The fields of a form that break the shape the specification declares:
\* customerId a non-empty string, amount a number greater than 0, status one
\* of "pending" and "paid".
NonPositiveAmount(form) == ~ToNumber(form.amount).nan /\ ~Gt(ToNumber(form.amount), 0)
BadCustomer(form)       == form.customerId = Null \/ form.customerId = Str("")
BadAmount(form)         == ToNumber(form.amount).nan \/ NonPositiveAmount(form)
BadStatus(form)         == form.status \notin {Str("pending"), Str("paid")}
BadFields(form) ==
    {f \in {"customerId", "amount", "status"} :
        \/ f = "customerId" /\ BadCustomer(form)
        \/ f = "amount" /\ BadAmount(form)
        \/ f = "status" /\ BadStatus(form)}

\* C5: in createInvoice and updateInvoice an amount that coerces to a
\* non-positive number (the empty string too) fails validation with a field
\* error on amount, and no INSERT or UPDATE is executed.
C5_NonPositiveAmountRejected ==
    (IsFormCall /\ NonPositiveAmount(call.args.form)) =>
        /\ FieldError("amount")
        /\ "sql" \notin Ops(call.effects)

\* C6: a create or update submission whose customerId is missing or is the
\* empty string fails validation with a field error on customerId and never
\* reaches the store.
C6_EmptyCustomerRejected ==
    (IsFormCall /\ BadCustomer(call.args.form)) =>
        /\ FieldError("customerId")
        /\ "sql" \notin Ops(call.effects)

\* C7: whenever field errors are returned, they have an entry for a field
\* exactly when that field is invalid; a status outside {"pending", "paid"}
\* always yields a field error on status, whatever the other fields are.
C7_FieldErrorsPerField ==
    IsFormCall =>
        /\ (call.outcome.kind = "return" /\ "errors" \in DOMAIN call.outcome.value)
              => DOMAIN call.outcome.value.errors = BadFields(call.args.form)
        /\ BadStatus(call.args.form) => FieldError("status")

\* Whether the schema of the deployed revision refuses the form.
ValidationFails(form) ==
    IF call.rev = "part_000"
    THEN ~FormSchema_safeParse(form).success
    ELSE ~FormSchema_parse(form).success

\* C8: when validation of a create or update submission fails, the action
\* returns field-keyed error messages and a summary message; no statement is
\* executed, the listing cache is not invalidated and no redirect is issued.
C8_ValidationFailureResult ==
    (IsFormCall /\ ValidationFails(call.args.form)) =>
        /\ call.outcome.kind = "return"
        /\ DOMAIN call.outcome.value = {"errors", "message"}
        /\ DOMAIN call.outcome.value.errors # {}
        /\ call.effects = <<>>

DatabaseErrorMessages ==
    {"Database Error: Failed to create invoice.", "Database Error: Failed to Update Invoice."}

\* C9: when the statement of createInvoice or updateInvoice fails, the action
\* returns a database-error message instead of propagating the failure; the
\* cache is not invalidated, no redirect is issued, the statement is not
\* retried.
C9_StoreFailureIsMessage ==
    (IsFormCall /\ call.storeDown) =>
        /\ call.outcome.kind = "return"
        /\ DOMAIN call.outcome.value = {"message"}
        /\ call.outcome.value.message \in DatabaseErrorMessages
        /\ Len(call.effects) = 1
        /\ call.effects[1].op = "sql"

\* C10: in createInvoice and updateInvoice the invalidation of
\* /dashboard/invoices comes strictly before the redirect to it, both come
\* only after the statement of the call has succeeded, and no redirect is
\* issued without the invalidation before it.
C10_InvalidateBeforeRedirect ==
    IsFormCall =>
        LET e == call.effects
        IN  /\ \A j \in 1..Len(e) :
                  e[j].op = "redirect" =>
                      /\ e[j].arg = InvoicesPath
                      /\ \E i \in 1..(j - 1) : e[i] = Ev("revalidatePath", InvoicesPath)
            /\ \A i \in 1..Len(e) :
                  e[i].op = "revalidatePath" =>
                      /\ ~call.storeDown
                      /\ \E k \in 1..(i - 1) : e[k].op = "sql"
                      /\ \E j \in (i + 1)..Len(e) : e[j].op = "redirect"
            /\ call.outcome = Redirect(InvoicesPath) <=> "redirect" \in Ops(e)

C10_Witness ==
    /\ IsFormCall
    /\ call.fn = "updateInvoice"
    /\ call.effects = <<Ev("sql", "UPDATE"), Ev("revalidatePath", InvoicesPath),
                        Ev("redirect", InvoicesPath)>>
    /\ call.outcome = Redirect(InvoicesPath)
    /\ \E r \in invoices : r.id = call.args.id

\* A call of this action has just been made with these properties.
Called(fn) == call = NoCall /\ call' # NoCall /\ call'.fn = fn

\* C11: for valid input createInvoice inserts exactly one new row, with the
\* customer and the status of the form, the amount of the form times 100
\* ("125.50" is stored as 12550) and the date of the call; the cached listing
\* is left stale and still shows what it showed, and the listing shows other
\* rows only when it is read while stale, and then it shows the table.
C11_CreateRoundTrip ==
    [][/\ (Called("createInvoice") /\ BadFields(call'.args.form) = {} /\ ~call'.storeDown) =>
            LET form == call'.args.form
                A    == ToNumber(form.amount)
            IN  \E r \in invoices' :
                    /\ r \notin invoices
                    /\ invoices' = invoices \cup {r}
                    /\ \A o \in invoices : o.id # r.id
                    /\ r.customer_id = form.customerId.v
                    /\ ~r.amount.nan
                    /\ r.amount.mant * Pow10(A.scale) = A.mant * 100 * Pow10(r.amount.scale)
                    /\ form.amount = Str(A_dec) => r.amount = Num(12550, 0)
                    /\ r.status = form.status.v
                    /\ r.date = today
                    /\ listing' = [valid |-> FALSE, rows |-> listing.rows]
       /\ listing'.rows # listing.rows => ~listing.valid
       /\ (~listing.valid /\ listing'.valid) => listing'.rows = invoices
      ]_vars

\* The listing was read after the first invoice was created, and a second
\* invoice has just been created on the next day, which the listing does not
\* show.
C11_Witness ==
    /\ call # NoCall
    /\ call.fn = "createInvoice"
    /\ call.args.form = [customerId |-> Str("c1"), amount |-> Str(A_dec), status |-> Str("pending")]
    /\ call.outcome = Redirect(InvoicesPath)
    /\ today = 2
    /\ \E r \in invoices :
          /\ r.id = 2 /\ r.customer_id = "c1" /\ r.amount = Num(12550, 0)
          /\ r.status = "pending" /\ r.date = 2
          /\ r \notin listing.rows
    /\ \E o \in listing.rows : o.id = 1 /\ o.date = 1
    /\ ~listing.valid

\* C12: a call of updateInvoice(id, ...) creates and removes no row, leaves
\* every row with another id as it was, leaves the id and the date of the row
\* with this id as they were, and when it succeeds that row carries the
\* customer and the status of the form and the amount of the form times 100.
C12_UpdateFrame ==
    [][Called("updateInvoice") =>
          LET id   == call'.args.id
              form == call'.args.form
              A    == ToNumber(form.amount)
          IN  /\ {r.id : r \in invoices'} = {r.id : r \in invoices}
              /\ Cardinality(invoices') = Cardinality(invoices)
              /\ nextId' = nextId
              /\ \A r \in invoices : r.id # id => r \in invoices'
              /\ \A r \in invoices, q \in invoices' : q.id = r.id => q.date = r.date
              /\ call'.outcome # Redirect(InvoicesPath) => invoices' = invoices
              /\ call'.outcome = Redirect(InvoicesPath) =>
                    \A q \in invoices' :
                        q.id = id =>
                            /\ q.customer_id = form.customerId.v
                            /\ q.status = form.status.v
                            /\ ~q.amount.nan
                            /\ q.amount.mant * Pow10(A.scale) = A.mant * 100 * Pow10(q.amount.scale)
      ]_vars

\* updateInvoice has succeeded on the first of two rows, a day after it was
\* created; the second row differs from what the form carried.
C12_Witness ==
    /\ call # NoCall
    /\ call.fn = "updateInvoice"
    /\ call.outcome = Redirect(InvoicesPath)
    /\ call.args.id = 1
    /\ call.args.form.status = Str("paid")
    /\ today = 2
    /\ \E r \in invoices : r.id = 1 /\ r.status = "paid" /\ r.date = 1
    /\ \E o \in invoices : o.id = 2 /\ o.status = "pending"

\* C13: a call of deleteInvoice(id) for an id that a row carries, with the
\* store reachable, leaves no row with that id and every other row as it was.
C13_DeleteRemovesRow ==
    [][(/\ Called("deleteInvoice")
        /\ ~call'.storeDown
        /\ \E r \in invoices : r.id = call'.args.id) =>
            /\ \A r \in invoices' : r.id # call'.args.id
            /\ \A r \in invoices : r.id # call'.args.id => r \in invoices'
            /\ invoices' \subseteq invoices
      ]_vars

\* C14: a call of deleteInvoice(id) for an id that no row carries, with the
\* store reachable, leaves the table exactly as it was and does not end in an
\* error.
C14_DeleteMissingIsBenign ==
    [][(/\ Called("deleteInvoice")
        /\ ~call'.storeDown
        /\ \A r \in invoices : r.id # call'.args.id) =>
            /\ invoices' = invoices
            /\ nextId' = nextId
            /\ call'.outcome.kind # "throw"
      ]_vars

\* C15: in createInvoice and updateInvoice a call whose statement the store
\* accepts ends with the redirect's signal reaching the caller, the redirect
\* being the last thing the call does; it never ends in a returned result, a
\* 'Database Error' message least of all, and such a message is returned only
\* when the store refused the statement.
C15_RedirectNotSwallowed ==
    IsFormCall =>
        /\ ("sql" \in Ops(call.effects) /\ ~call.storeDown) =>
              /\ call.outcome.kind = "throw"
              /\ call.outcome.error = "NEXT_REDIRECT"
              /\ call.outcome.to = InvoicesPath
              /\ call.effects[Len(call.effects)] = Ev("redirect", InvoicesPath)
        /\ (/\ call.outcome.kind = "return"
            /\ call.outcome.value.message \in DatabaseErrorMessages) => call.storeDown

C15_Witness ==
    /\ IsFormCall
    /\ call.fn = "createInvoice"
    /\ ~call.storeDown
    /\ Has(call.effects, Ev("sql", "INSERT"))
    /\ call.outcome.kind = "throw"
    /\ call.outcome.error = "NEXT_REDIRECT"
    /\ \E r \in invoices : r.id = nextId - 1

\* C16: every row of the invoices table has an amount that is a positive
\* whole number of minor units and a status that is "pending" or "paid".
C16_StoreInvariant ==
    \A r \in invoices :
        /\ IsInteger(r.amount)
        /\ Gt(r.amount, 0)
        /\ r.status \in {"pending", "paid"}

====
